---- MODULE Spec2Model ----
(***************************************************************************)
(* Model of src/mcp-server/server.py: the FastAPI wrapper that turns one   *)
(* HTTP request into one run of `python -m blockscout_mcp_server` and maps *)
(* the finished process to a response.                                     *)
(*                                                                         *)
(* Optional[T] values are sequences of length at most one: <<>> is None    *)
(* and <<v>> is the value v.  A Dict[str, Any] is a function from a set of *)
(* keys to Optional values, so that a key bound to null can be told from   *)
(* an absent key.                                                          *)
(***************************************************************************)
EXTENDS Naturals, Sequences, FiniteSets

\* Number of HTTP requests to the three POST routes in one behaviour.
MaxRequests == 2

Slots == 1..MaxRequests

None == <<>>
Some(v) == <<v>>

VARIABLES
    pc,        \* per request: "idle", "received", "running", "answered"
    req,       \* per request: the HTTP request, until it is answered
    call,      \* per request: the MCPToolRequest call_mcp_tool is running with
    proc,      \* per request: the downstream process / CompletedProcess
    response,  \* per request: the HTTP responses sent for it
    loop,      \* the request whose handler occupies the event loop, 0 if none
    getResp    \* the response of the latest GET / or GET /health, None if none

vars == <<pc, req, call, proc, response, loop, getResp>>

-----------------------------------------------------------------------------
(* Requests *)

OptKeys == {"address", "age_from", "age_to", "token", "cursor"}

EmptyDict == [k \in {} |-> None]

MCPToolRequest(tool, arguments) == [tool |-> tool, arguments |-> arguments]

NoCall == MCPToolRequest("", EmptyDict)

HttpRequest(route, tool, arguments, chain_id, address, age_from, age_to, token, cursor) ==
    [route |-> route, tool |-> tool, arguments |-> arguments, chain_id |-> chain_id,
     address |-> address, age_from |-> age_from, age_to |-> age_to,
     token |-> token, cursor |-> cursor]

NoRequest == HttpRequest("", "", EmptyDict, "", None, None, None, None, None)

CallRequest(tool, arguments) ==
    HttpRequest("/mcp/call", tool, arguments, "", None, None, None, None, None)

AddressInfoRequest(chain_id, address) ==
    HttpRequest("/mcp/address-info", "", EmptyDict, chain_id, Some(address),
                None, None, None, None)

TokenTransfersRequest(chain_id, address, age_from, age_to, token, cursor) ==
    HttpRequest("/mcp/token-transfers", "", EmptyDict, chain_id, address,
                age_from, age_to, token, cursor)

\* Values a query parameter of /mcp/token-transfers can take: omitted,
\* supplied empty, supplied non-empty.
OptValues == {None, Some(""), Some("a")}

ChainIds == {"1", ""}

AllTokenTransfers ==
    {TokenTransfersRequest(c, a, f, t, k, u) :
        c \in ChainIds, a \in OptValues, f \in OptValues, t \in OptValues,
        k \in OptValues, u \in OptValues}

\* The requests of the full service model.
Requests ==
    { CallRequest("get_address_info",
                  [k \in {"chain_id", "address"} |->
                      IF k = "chain_id" THEN Some("1") ELSE Some("0xabc")]),
      AddressInfoRequest("1", "0xabc"),
      TokenTransfersRequest("1", None, None, None, None, None),
      TokenTransfersRequest("1", Some("0xabc"), Some(""), None, Some("a"), None) }

-----------------------------------------------------------------------------
(* Convenience routes: argument building *)

get_address_info(chain_id, address) ==
    MCPToolRequest("get_address_info",
        [k \in {"chain_id", "address"} |->
            IF k = "chain_id" THEN Some(chain_id) ELSE address])

\* Python truthiness of an Optional[str]: None and "" are falsy.
Truthy(o) == o # None /\ o[1] # ""

\* As get_token_transfers, with `is not None` in place of truthiness.
get_token_transfers_isnotnone(q) ==
    MCPToolRequest("get_token_transfers",
        [k \in {"chain_id"} \cup {o \in OptKeys : q[o] # None} |->
            IF k = "chain_id" THEN Some(q.chain_id) ELSE q[k]])

get_token_transfers(q) ==
    MCPToolRequest("get_token_transfers",
        [k \in {"chain_id"} \cup {o \in OptKeys : Truthy(q[o])} |->
            IF k = "chain_id" THEN Some(q.chain_id) ELSE q[k]])

\* The MCPToolRequest that reaches call_mcp_tool for an HTTP request.
ToolRequestOf(q) ==
    CASE q.route = "/mcp/call" -> MCPToolRequest(q.tool, q.arguments)
      [] q.route = "/mcp/address-info" -> get_address_info(q.chain_id, q.address)
      [] q.route = "/mcp/token-transfers" -> get_token_transfers(q)

-----------------------------------------------------------------------------
(* Downstream process *)

ReturnCodes == {0, 1}

StdoutTexts == {"{\"x\":1}", "{}", "null", "[1]", "not-json", ""}

StderrTexts == {"", "boom"}

Process(state, returncode, stdout, stderr) ==
    [state |-> state, returncode |-> returncode, stdout |-> stdout, stderr |-> stderr]

NoProc == Process("none", 0, "", "")

Outcomes ==
    {Process("exited", c, o, e) : c \in ReturnCodes, o \in StdoutTexts, e \in StderrTexts}

\* subprocess.run on timeout: the child is killed and waited for before
\* TimeoutExpired is raised.
kill_leak(p) == p

kill(p) == [p EXCEPT !.state = "killed"]

-----------------------------------------------------------------------------
(* JSON and the response model *)

JsonValue(kind, items) == [kind |-> kind, items |-> items]

\* json.loads on the stdout texts of the model; any other text is not JSON.
json_loads(s) ==
    CASE s = "{\"x\":1}" -> [ok |-> TRUE, value |-> JsonValue("object", {<<"x", "1">>})]
      [] s = "{}"        -> [ok |-> TRUE, value |-> JsonValue("object", {})]
      [] s = "null"      -> [ok |-> TRUE, value |-> JsonValue("null", {})]
      [] s = "[1]"       -> [ok |-> TRUE, value |-> JsonValue("array", {<<"0", "1">>})]
      [] OTHER           -> [ok |-> FALSE, value |-> JsonValue("null", {})]

MCPToolResponse(success, data, error) ==
    [success |-> success, data |-> data, error |-> error]

\* Validation of the `data` field, Optional[Dict[str, Any]]: a dict is kept,
\* Python None (JSON null) is the field's None, anything else is rejected.
ValidData(v) == v.kind \in {"object", "null"}

DataField(v) == IF v.kind = "null" THEN None ELSE Some(v)

HttpOk(model) == [status |-> 200, body |-> Some(model), detail |-> None]

HTTPException(status_code, detail) ==
    [status |-> status_code, body |-> None, detail |-> Some(detail)]

\* As call_mcp_tool_result, with `returncode != 0 or stderr` as the failure test.
call_mcp_tool_result_stderr(result) ==
    IF result.returncode # 0 \/ result.stderr # ""
    THEN HttpOk(MCPToolResponse(FALSE, None,
            Some(IF result.stderr # "" THEN result.stderr ELSE "Unknown error")))
    ELSE LET parsed == json_loads(result.stdout) IN
         IF ~parsed.ok
         THEN HTTPException(500, "Invalid response from MCP server")
         ELSE IF ~ValidData(parsed.value)
         THEN HTTPException(500, "validation error for MCPToolResponse")
         ELSE HttpOk(MCPToolResponse(TRUE, DataField(parsed.value), None))

\* As call_mcp_tool_result, with stdout parsed before the return code is read.
call_mcp_tool_result_parsefirst(result) ==
    LET parsed == json_loads(result.stdout) IN
    IF ~parsed.ok
    THEN HTTPException(500, "Invalid response from MCP server")
    ELSE IF result.returncode # 0
    THEN HttpOk(MCPToolResponse(FALSE, None,
            Some(IF result.stderr # "" THEN result.stderr ELSE "Unknown error")))
    ELSE IF ~ValidData(parsed.value)
    THEN HTTPException(500, "validation error for MCPToolResponse")
    ELSE HttpOk(MCPToolResponse(TRUE, DataField(parsed.value), None))

\* As call_mcp_tool_result, with a JSONDecodeError reported in the envelope.
call_mcp_tool_result_envelope(result) ==
    IF result.returncode # 0
    THEN HttpOk(MCPToolResponse(FALSE, None,
            Some(IF result.stderr # "" THEN result.stderr ELSE "Unknown error")))
    ELSE LET parsed == json_loads(result.stdout) IN
         IF ~parsed.ok
         THEN HttpOk(MCPToolResponse(FALSE, None,
                 Some("Invalid response from MCP server")))
         ELSE IF ~ValidData(parsed.value)
         THEN HTTPException(500, "validation error for MCPToolResponse")
         ELSE HttpOk(MCPToolResponse(TRUE, DataField(parsed.value), None))

\* call_mcp_tool after subprocess.run has returned CompletedProcess `result`.
call_mcp_tool_result(result) ==
    IF result.returncode # 0
    THEN HttpOk(MCPToolResponse(FALSE, None,
            Some(IF result.stderr # "" THEN result.stderr ELSE "Unknown error")))
    ELSE LET parsed == json_loads(result.stdout) IN
         IF ~parsed.ok
         THEN HTTPException(500, "Invalid response from MCP server")
         ELSE IF ~ValidData(parsed.value)
         THEN HTTPException(500, "validation error for MCPToolResponse")
         ELSE HttpOk(MCPToolResponse(TRUE, DataField(parsed.value), None))

\* call_mcp_tool after subprocess.run has raised TimeoutExpired.
call_mcp_tool_timeout == HTTPException(504, "Request timed out")

-----------------------------------------------------------------------------
(* GET routes *)

root ==
    [status |-> 200,
     body |-> Some([service |-> "Blockscout MCP Server", status |-> "running",
                    version |-> "1.0.0",
                    endpoints |-> [health |-> "/health",
                                   mcp_call |-> "/mcp/call (POST)",
                                   address_info |-> "/mcp/address-info (POST)",
                                   token_transfers |-> "/mcp/token-transfers (POST)"]]),
     detail |-> None]

health ==
    [status |-> 200,
     body |-> Some([status |-> "healthy", service |-> "mcp-server"]),
     detail |-> None]

-----------------------------------------------------------------------------
(* State machine *)

Init ==
    /\ pc = [r \in Slots |-> "idle"]
    /\ req = [r \in Slots |-> NoRequest]
    /\ call = [r \in Slots |-> NoCall]
    /\ proc = [r \in Slots |-> NoProc]
    /\ response = [r \in Slots |-> <<>>]
    /\ loop = 0
    /\ getResp = None

\* A client sends request q; the server accepts it.
Arrive(r, q) ==
    /\ pc[r] = "idle"
    /\ pc' = [pc EXCEPT ![r] = "received"]
    /\ req' = [req EXCEPT ![r] = q]
    /\ UNCHANGED <<call, proc, response, loop, getResp>>

\* As Begin, for a handler that does not hold the event loop while it waits.
Begin_nonblocking(r) ==
    /\ pc[r] = "received"
    /\ pc' = [pc EXCEPT ![r] = "running"]
    /\ call' = [call EXCEPT ![r] = ToolRequestOf(req[r])]
    /\ proc' = [proc EXCEPT ![r] = Process("running", 0, "", "")]
    /\ loop' = r
    /\ UNCHANGED <<req, response, getResp>>

\* The event loop runs the route handler of r up to the blocking
\* subprocess.run: the tool request is built and the process is spawned.
Begin(r) ==
    /\ pc[r] = "received"
    /\ loop = 0
    /\ pc' = [pc EXCEPT ![r] = "running"]
    /\ call' = [call EXCEPT ![r] = ToolRequestOf(req[r])]
    /\ proc' = [proc EXCEPT ![r] = Process("running", 0, "", "")]
    /\ loop' = r
    /\ UNCHANGED <<req, response, getResp>>

\* subprocess.run cannot start the process and raises (OSError); the
\* handler's `except Exception` answers 500 with the failure's text.
SpawnFail(r) ==
    /\ pc[r] = "received"
    /\ loop = 0
    /\ response' = [response EXCEPT ![r] = Append(@, HTTPException(500, "OSError"))]
    /\ pc' = [pc EXCEPT ![r] = "answered"]
    /\ req' = [req EXCEPT ![r] = NoRequest]
    /\ UNCHANGED <<call, proc, loop, getResp>>

\* The downstream process exits on its own.
ProcExit(r, o) ==
    /\ proc[r].state = "running"
    /\ pc[r] = "running"
    /\ proc' = [proc EXCEPT ![r] = o]
    /\ UNCHANGED <<pc, req, call, response, loop, getResp>>

\* subprocess.run returns; the handler maps the result and answers.
Finish(r) ==
    /\ pc[r] = "running"
    /\ proc[r].state = "exited"
    /\ response' = [response EXCEPT ![r] = Append(@, call_mcp_tool_result(proc[r]))]
    /\ pc' = [pc EXCEPT ![r] = "answered"]
    /\ req' = [req EXCEPT ![r] = NoRequest]
    /\ call' = [call EXCEPT ![r] = NoCall]
    /\ loop' = 0
    /\ UNCHANGED <<proc, getResp>>

\* As Timeout, for subprocess.run called without timeout=30: it never fires.
Timeout_absent(r) ==
    /\ FALSE
    /\ UNCHANGED vars

\* The 30 s timeout of subprocess.run fires while the process is running.
Timeout(r) ==
    /\ pc[r] = "running"
    /\ proc[r].state = "running"
    /\ proc' = [proc EXCEPT ![r] = kill(@)]
    /\ response' = [response EXCEPT ![r] = Append(@, call_mcp_tool_timeout)]
    /\ pc' = [pc EXCEPT ![r] = "answered"]
    /\ req' = [req EXCEPT ![r] = NoRequest]
    /\ call' = [call EXCEPT ![r] = NoCall]
    /\ loop' = 0
    /\ UNCHANGED getResp

Root ==
    /\ loop = 0
    /\ getResp' = Some(root)
    /\ UNCHANGED <<pc, req, call, proc, response, loop>>

\* As Health, for a health check that probes the downstream tool.
Health_probe ==
    /\ loop = 0
    /\ getResp' = Some(health)
    /\ \E r \in Slots :
          /\ proc[r].state = "none"
          /\ proc' = [proc EXCEPT ![r] = Process("exited", 0, "{}", "")]
    /\ UNCHANGED <<pc, req, call, response, loop>>

Health ==
    /\ loop = 0
    /\ getResp' = Some(health)
    /\ UNCHANGED <<pc, req, call, proc, response, loop>>

Next ==
    \/ \E r \in Slots, q \in Requests : Arrive(r, q)
    \/ \E r \in Slots : Begin(r)
    \/ \E r \in Slots : SpawnFail(r)
    \/ \E r \in Slots, o \in Outcomes : ProcExit(r, o)
    \/ \E r \in Slots : Finish(r)
    \/ \E r \in Slots : Timeout(r)
    \/ Root
    \/ Health

Spec == Init /\ [][Next]_vars

\* The event loop runs a ready handler when it is free, a handler whose
\* subprocess.run has returned goes on, and the timeout of a running
\* subprocess.run fires.  Nothing makes the downstream process exit.
Fairness ==
    \A r \in Slots :
        /\ WF_vars(Begin(r) \/ SpawnFail(r))
        /\ WF_vars(Finish(r))
        /\ WF_vars(Timeout(r))

\* The service on one request per kind of route and one process outcome
\* per kind of response.
LiveRequests ==
    { CallRequest("get_address_info",
                  [k \in {"chain_id", "address"} |->
                      IF k = "chain_id" THEN Some("1") ELSE Some("0xabc")]),
      TokenTransfersRequest("1", Some("0xabc"), Some(""), None, Some("a"), None) }

LiveOutcomes ==
    {Process("exited", c, o, e) :
        c \in ReturnCodes, o \in {"{\"x\":1}", "[1]", "not-json"}, e \in StderrTexts}

LiveNext ==
    \/ \E r \in Slots, q \in LiveRequests : Arrive(r, q)
    \/ \E r \in Slots : Begin(r)
    \/ \E r \in Slots : SpawnFail(r)
    \/ \E r \in Slots, o \in LiveOutcomes : ProcExit(r, o)
    \/ \E r \in Slots : Finish(r)
    \/ \E r \in Slots : Timeout(r)
    \/ Root
    \/ Health

LiveSpec == Init /\ [][LiveNext]_vars /\ Fairness

\* get_token_transfers on every combination of its parameters.
ArgsNext ==
    \/ \E q \in AllTokenTransfers : Arrive(1, q)
    \/ Begin(1)

ArgsSpec == Init /\ [][ArgsNext]_vars

-----------------------------------------------------------------------------
(* Claims *)

Answered(r) == pc[r] = "answered"

\* The request was answered from a CompletedProcess.
Completed(r) == Answered(r) /\ proc[r].state = "exited"

\* The ToolResponse bodies among the responses sent so far.
ToolResponses ==
    UNION { {response[r][i].body[1] :
                i \in {j \in 1..Len(response[r]) : response[r][j].body # None}} :
            r \in Slots }

\* C1: every ToolResponse has exactly one of data/error non-null: data and
\* no error when success is true, error and no data when success is false.
C1_ExactlyOneOfDataError ==
    \A m \in ToolResponses :
        /\ m.success => (m.data # None /\ m.error = None)
        /\ ~m.success => (m.error # None /\ m.data = None)

\* The data field carries the parsed value v (Python None for JSON null).
DataIs(m, v) == IF v.kind = "null" THEN m.data = None ELSE m.data = Some(v)

\* C2 as stated: exit code 0 and stdout that parses as JSON give HTTP 200,
\* success = true and data equal to the parsed value, whatever stderr holds.
C2_AnyJsonSucceeds ==
    \A r \in Slots :
        (Completed(r) /\ proc[r].returncode = 0 /\ json_loads(proc[r].stdout).ok)
        => /\ Len(response[r]) = 1
           /\ response[r][1].status = 200
           /\ response[r][1].body # None
           /\ response[r][1].body[1].success
           /\ DataIs(response[r][1].body[1], json_loads(proc[r].stdout).value)

\* C2 amended: exit code 0 and stdout that parses as a JSON object (or as
\* null) give HTTP 200, success = true and data equal to the parsed value,
\* whatever stderr holds.
C2_JsonObjectSucceeds ==
    \A r \in Slots :
        (/\ Completed(r) /\ proc[r].returncode = 0
         /\ json_loads(proc[r].stdout).ok
         /\ json_loads(proc[r].stdout).value.kind \in {"object", "null"})
        => /\ Len(response[r]) = 1
           /\ response[r][1].status = 200
           /\ response[r][1].body # None
           /\ response[r][1].body[1].success
           /\ response[r][1].body[1].error = None
           /\ DataIs(response[r][1].body[1], json_loads(proc[r].stdout).value)

C2_Witness ==
    \E r \in Slots :
        /\ Completed(r)
        /\ proc[r] = Process("exited", 0, "{\"x\":1}", "boom")
        /\ response[r] = <<[status |-> 200,
                            body |-> Some([success |-> TRUE,
                                           data |-> Some(JsonValue("object", {<<"x", "1">>})),
                                           error |-> None]),
                            detail |-> None]>>

\* C3: a non-zero exit code gives HTTP 200 with success = false, no data and
\* error = stderr, or "Unknown error" when stderr is empty, whatever stdout
\* holds.
C3_NonZeroExitIsEnvelope ==
    \A r \in Slots :
        (Completed(r) /\ proc[r].returncode # 0)
        => response[r] =
             <<[status |-> 200,
                body |-> Some([success |-> FALSE, data |-> None,
                               error |-> Some(IF proc[r].stderr = ""
                                              THEN "Unknown error"
                                              ELSE proc[r].stderr)]),
                detail |-> None]>>

C3_Witness ==
    \E r \in Slots :
        /\ Completed(r)
        /\ proc[r] = Process("exited", 1, "not-json", "boom")
        /\ response[r][1].status = 200
        /\ response[r][1].body[1].error = Some("boom")

\* C4: a request whose downstream process was still running when the
\* timeout fired is answered with status 504 and no ToolResponse, and once
\* a request is answered its process is no longer running.
C4_TimeoutIs504AndKills ==
    \A r \in Slots :
        Answered(r) =>
            /\ proc[r].state # "running"
            /\ (proc[r].state = "killed"
                  <=> (Len(response[r]) = 1 /\ response[r][1].status = 504))
            /\ (proc[r].state = "killed" => response[r][1].body = None)

C4_Witness ==
    \E r \in Slots :
        /\ Answered(r)
        /\ proc[r].state = "killed"
        /\ response[r] = <<[status |-> 504, body |-> None,
                            detail |-> Some("Request timed out")]>>

\* C5: exit code 0 with stdout that is not JSON gives status 500 and no
\* ToolResponse.
C5_BadStdoutIs500 ==
    \A r \in Slots :
        (Completed(r) /\ proc[r].returncode = 0 /\ ~json_loads(proc[r].stdout).ok)
        => /\ Len(response[r]) = 1
           /\ response[r][1].status = 500
           /\ response[r][1].body = None

C5_Witness ==
    \E r \in Slots :
        /\ Completed(r)
        /\ proc[r].returncode = 0
        /\ proc[r].stdout = "not-json"
        /\ response[r][1].status = 500

\* C6: the arguments /mcp/token-transfers forwards hold chain_id always and
\* each optional parameter exactly when it was supplied non-empty, with the
\* supplied value and never null; with only chain_id supplied the mapping
\* has the one key chain_id.  The tool name is get_token_transfers.
C6_ForwardedArguments ==
    \A r \in Slots :
        (pc[r] = "running" /\ req[r].route = "/mcp/token-transfers")
        => LET a == call[r].arguments
               q == req[r]
           IN /\ call[r].tool = "get_token_transfers"
              /\ "chain_id" \in DOMAIN a
              /\ a["chain_id"] = Some(q.chain_id)
              /\ DOMAIN a \subseteq {"chain_id"} \cup OptKeys
              /\ \A k \in OptKeys :
                    (k \in DOMAIN a) <=> (q[k] # None /\ q[k] # Some(""))
              /\ \A k \in DOMAIN a \cap OptKeys : a[k] = q[k]
              /\ \A k \in DOMAIN a : a[k] # None
              /\ (\A k \in OptKeys : q[k] = None) => DOMAIN a = {"chain_id"}

C6_Witness ==
    \E r \in Slots :
        /\ pc[r] = "running"
        /\ req[r] = TokenTransfersRequest("1", Some("a"), Some(""), None, Some("a"), None)
        /\ DOMAIN call[r].arguments = {"chain_id", "address", "token"}

GetBodies ==
    { [status |-> "healthy", service |-> "mcp-server"],
      [service |-> "Blockscout MCP Server", status |-> "running",
       version |-> "1.0.0",
       endpoints |-> [health |-> "/health",
                      mcp_call |-> "/mcp/call (POST)",
                      address_info |-> "/mcp/address-info (POST)",
                      token_transfers |-> "/mcp/token-transfers (POST)"]] }

\* C7: a GET / or GET /health is answered with status 200 and the route's
\* fixed body in every state, and answering it changes nothing else: no
\* process is spawned and no request moves.
C7_GetsAreFixedAndPure ==
    /\ [](getResp # None =>
            /\ getResp[1].status = 200
            /\ getResp[1].body # None
            /\ getResp[1].body[1] \in GetBodies)
    /\ [][getResp' # getResp =>
            UNCHANGED <<pc, req, call, proc, response, loop>>]_vars

C7_Witness ==
    /\ getResp # None
    /\ getResp[1].body = Some([status |-> "healthy", service |-> "mcp-server"])
    /\ \E r \in Slots : Answered(r)
    /\ \E r \in Slots : pc[r] = "received"

\* C8: no mutual exclusion between requests: while one request's downstream
\* process is running, the handling of another received request can start.
C8_NoMutualExclusion ==
    \A r, s \in Slots :
        (r # s /\ pc[r] = "running" /\ pc[s] = "received") => ENABLED Begin(s)

\* C9: every accepted request is eventually answered, and no request gets
\* more than one response, even if the downstream process never exits.
C9_EveryRequestAnswered ==
    /\ \A r \in Slots :
          (pc[r] = "received") ~> (Answered(r) /\ Len(response[r]) = 1)
    /\ [](\A r \in Slots : Len(response[r]) <= 1)

C9_Witness ==
    \E r, s \in Slots :
        /\ r # s
        /\ Answered(r) /\ proc[r].state = "killed" /\ Len(response[r]) = 1
        /\ Answered(s) /\ Len(response[s]) = 1

\* C10: at most one downstream process is alive at any time, and from the
\* spawn of a process to the response of its request the server starts and
\* answers nothing else: no other handler can begin or finish and neither
\* GET route can be answered.
C10_HandlingIsSerialized ==
    /\ Cardinality({r \in Slots : proc[r].state = "running"}) <= 1
    /\ \A r \in Slots :
          pc[r] = "running" =>
            /\ loop = r
            /\ ~ENABLED Root
            /\ ~ENABLED Health
            /\ \A s \in Slots \ {r} :
                  /\ ~ENABLED Begin(s)
                  /\ ~ENABLED SpawnFail(s)
                  /\ ~ENABLED Finish(s)
                  /\ ~ENABLED Timeout(s)

C10_Witness ==
    \E r, s \in Slots :
        /\ r # s
        /\ pc[r] = "running" /\ proc[r].state = "running"
        /\ pc[s] = "received"

====
